---- MODULE Spec2Model ----
(***************************************************************************)
(* Model of the dejavu linker (linker::build, build_libraries,             *)
(* build_scripts, build_objects, add_function, link, operator<< for        *)
(* argument) and of the runtime scope/array services (lookup, access).     *)
(***************************************************************************)
EXTENDS Integers, Sequences, FiniteSets, TLC

VARIABLES
    source,      \* linker::source  : the game (actions, scripts, objects)
    debug,       \* build(target, debug)
    pc,          \* position inside linker::build
    i,           \* loop index of build_libraries / build_scripts
    oi, ei, ai,  \* loop indices i, e, a of build_objects (1-based)
    code,        \* std::ostringstream code of build_objects
    context,     \* errors.set_context
    errors,      \* the diagnostics recorded in the error_stream
    registered,  \* names passed to compiler.register_script
    units,       \* calls of linker::add_function, in order
    functions,   \* calls of compiler.add_function, in order
    progress,    \* errors.progress percentages, in order
    backend,     \* what build() did to the module and the file system
    ret,         \* return value of build()
    global,      \* static scope global : name -> slot
    scopes,      \* the instance scopes handed in as self / other : name -> slot
    heap,        \* the var held by each slot (node) of the maps
    arr,         \* the var handed to access
    result       \* last call of lookup / access and what it returned

buildVars == <<source, debug, pc, i, oi, ei, ai, code, context, errors,
               registered, units, functions, progress, backend, ret>>
scopeVars == <<global, scopes, heap, arr, result>>
vars == <<source, debug, pc, i, oi, ei, ai, code, context, errors,
          registered, units, functions, progress, backend, ret,
          global, scopes, heap, arr, result>>

----------------------------------------------------------------------------
(* Bounds of the model *)

MaxScripts == 2
MaxArgs == 2
MaxSyntaxErrors == 2
MaxExtent == 2
MaxValue == 1
MaxSlots == 2

----------------------------------------------------------------------------
(* Project data: action types, arguments, actions *)

ActionSelf == -1

AT(kind, exec, question, relative, parent, id, text, nargs) ==
    [kind |-> kind, exec |-> exec, question |-> question, relative |-> relative,
     parent |-> parent, id |-> id, code |-> text, nargs |-> nargs]

Arg(kind, val, resource) == [kind |-> kind, val |-> val, resource |-> resource]

Act(type, target, inv, relative, args) ==
    [type |-> type, target |-> target, inv |-> inv, relative |-> relative,
     nargs |-> Len(args), args |-> args]

ArgPool ==
    << Arg("arg_expr", "x+1", 0),
       Arg("arg_string", "hi", 0),
       Arg("arg_both", "'q'", 0),
       Arg("arg_both", "w", 0),
       Arg("arg_bool", "0", 0),
       Arg("arg_menu", "2", 0),
       Arg("arg_color", "255", 0),
       Arg("arg_sprite", "", 4),
       Arg("arg_string", "a\"b", 0) >>

\* n consecutive arguments of the pool, starting after position shift
ArgWindow(n, shift) ==
    [k \in 1..n |-> ArgPool[((k + shift - 1) % Len(ArgPool)) + 1]]

ArgSeqs ==
    {ArgWindow(n, s) : n \in 0..MaxArgs, s \in 0..(Len(ArgPool) - 1)}

ActionKinds ==
    {"act_normal", "act_begin", "act_end", "act_else", "act_exit",
     "act_repeat", "act_variable", "act_code", "act_placeholder"}

ExecKinds == {"exec_none", "exec_function", "exec_code"}

\* the library: code-backed and function-backed action types
LibCode1 == AT("act_normal", "exec_code", FALSE, FALSE, -1, 1, "x = 1", 0)
LibCode2 == AT("act_normal", "exec_code", FALSE, TRUE, 1, 1, "y = argument0", 1)
LibFunc  == AT("act_normal", "exec_function", FALSE, FALSE, 1, 2, "action_kill", 0)
TypeCode == AT("act_code", "exec_none", FALSE, FALSE, 1, 3, "", 1)
TypeExit == AT("act_exit", "exec_none", FALSE, FALSE, 1, 4, "", 0)

LibSeqs ==
    {<< >>, <<LibCode1>>, <<LibFunc, LibCode2>>, <<LibCode1, LibCode2>>}

NormalTypes ==
    {AT("act_normal", x, q, r, p, 5, "action_move", 0) :
        x \in ExecKinds, q \in BOOLEAN, r \in BOOLEAN, p \in {-1, 1}}

OtherTypes ==
    {AT(k, x, FALSE, FALSE, 1, 6, "", 2) :
        k \in ActionKinds \ {"act_normal"}, x \in ExecKinds}

NormalActions ==
    {Act(t, tg, inv, rel, args) :
        t \in NormalTypes, tg \in {ActionSelf, 3}, inv \in BOOLEAN,
        rel \in BOOLEAN, args \in ArgSeqs}

OtherActions ==
    {Act(t, ActionSelf, FALSE, rel, ArgWindow(2, 0)) :
        t \in OtherTypes, rel \in BOOLEAN}

RichActions == NormalActions \cup OtherActions

CodeAction == Act(TypeCode, ActionSelf, FALSE, FALSE, <<Arg("arg_string", "z = 2", 0)>>)
ExitAction == Act(TypeExit, ActionSelf, FALSE, FALSE, << >>)

----------------------------------------------------------------------------
(* Projects handed to the linker *)

Script(name) == [name |-> name, code |-> "return 0"]

Event(ids, actions) ==
    [main_id |-> ids[1], sub_id |-> ids[2],
     nactions |-> Len(actions), actions |-> actions]

Object(name, events) ==
    [name |-> name, nevents |-> Len(events), events |-> events]

Game(actions, scripts, objects) ==
    [nactions |-> Len(actions), actions |-> actions,
     nscripts |-> Len(scripts), scripts |-> scripts,
     nobjects |-> Len(objects), objects |-> objects]

ScriptNames == {"scr" \o ToString(k) : k \in 1..MaxScripts}

ScriptSeqs ==
    {[k \in DOMAIN f |-> Script(f[k])] :
        f \in {g \in UNION {[1..n -> ScriptNames] : n \in 0..MaxScripts} :
                  \A a, b \in DOMAIN g : a # b => g[a] # g[b]}}

ObjectNames == {"a", "a_1"}

EventIds == {<<1, 2>>, <<2, 0>>}

StructEvents == {Event(id, as) : id \in EventIds, as \in {<< >>, <<CodeAction>>}}

ObjectsNamed(n) ==
    {Object(n, es) : es \in {<< >>} \cup {<<e>> : e \in StructEvents}}

StructObjects == UNION {ObjectsNamed(n) : n \in ObjectNames}

ObjectSeqs ==
    {<< >>} \cup {<<o>> : o \in StructObjects}
            \cup {<<o1, o2>> : o1 \in ObjectsNamed("a"), o2 \in ObjectsNamed("a_1")}

\* projects that vary the units of the build
StructProjects ==
    {Game(la, sc, ob) : la \in LibSeqs, sc \in ScriptSeqs, ob \in ObjectSeqs}

\* projects that vary the actions of one event
RenderProjects ==
    {Game(<< >>, << >>, <<Object("a", <<Event(<<1, 2>>, as)>>)>>) :
        as \in {<<r>> : r \in RichActions}
               \cup {<<p, r>> : p \in {CodeAction, ExitAction}, r \in RichActions}}

Projects == StructProjects \cup RenderProjects

----------------------------------------------------------------------------
(* operator<<(std::ostream&, const argument&) *)

RECURSIVE Find(_, _, _)
\* std::string::find(c) from position k (1-based); 0 when absent
Find(s, c, k) ==
    IF k > Len(s) THEN 0
    ELSE IF SubSeq(s, k, k) = c THEN k
    ELSE Find(s, c, k + 1)

FirstChar(val) == IF Len(val) = 0 THEN "" ELSE SubSeq(val, 1, 1)

\* the argument is rendered through the arg_string case
AsString(arg) ==
    \/ arg.kind = "arg_string"
    \/ arg.kind = "arg_both" /\ FirstChar(arg.val) \notin {"\"", "'"}

\* the replace loop of arg_string never ends once val holds a double quote:
\* the replacement text itself starts with a double quote
ArgDiverges(arg) == AsString(arg) /\ Find(arg.val, "\"", 1) # 0

BoolText(b) == IF b THEN "1" ELSE "0"

RenderArg(arg) ==
    CASE arg.kind = "arg_expr" -> arg.val
      [] arg.kind = "arg_both" /\ ~AsString(arg) -> arg.val
      [] AsString(arg) -> "\"" \o arg.val \o "\""
      [] arg.kind = "arg_bool" -> BoolText(FirstChar(arg.val) = "0")
      [] arg.kind = "arg_menu" -> arg.val
      [] arg.kind = "arg_color" -> "$" \o arg.val
      [] OTHER -> ToString(arg.resource)

----------------------------------------------------------------------------
(* build_objects: text of one action *)

RECURSIVE RenderArgs(_, _)
\* for (n = 0; n < act.nargs; n++) { if (n != 0) code << ", "; code << act.args[n]; }
RenderArgs(act, n) ==
    IF n >= act.nargs THEN ""
    ELSE (IF n # 0 THEN ", " ELSE "") \o RenderArg(act.args[n + 1])
         \o RenderArgs(act, n + 1)

Callee(type) ==
    IF type.exec = "exec_code"
    THEN "action_lib" \o (IF type.parent > -1 THEN ToString(type.parent) ELSE "")
         \o "_" \o ToString(type.id)
    ELSE type.code

RenderCall(act) ==
    Callee(act.type) \o "(" \o RenderArgs(act, 0)
    \o (IF act.type.relative THEN ", " \o BoolText(act.relative) ELSE "")
    \o ")"

RenderPrefix(act) ==
    (IF act.target # ActionSelf THEN "with (" \o ToString(act.target) \o ")" ELSE "")
    \o (IF act.type.question THEN "if (" ELSE "")
    \o (IF act.inv THEN "!" ELSE "")

RenderSuffix(act) == (IF act.type.question THEN ")" ELSE "") \o "\n"

\* variant: the exec_none test of the normal case is missing
RenderNormalAlways(act) ==
    RenderPrefix(act) \o RenderCall(act) \o RenderSuffix(act)

RenderNormal(act) ==
    IF act.type.exec = "exec_none" THEN ""
    ELSE RenderPrefix(act) \o RenderCall(act) \o RenderSuffix(act)

EventUnitName(obj, evt) ==
    obj.name \o "_" \o ToString(evt.main_id) \o "_" \o ToString(evt.sub_id)

CodeUnitName(obj, evt, a) == EventUnitName(obj, evt) \o "_" \o ToString(a)

LibraryUnitName(type) ==
    "action_lib" \o (IF type.parent > -1 THEN ToString(type.parent) ELSE "")
    \o "_" \o ToString(type.id)

\* the text one iteration of the action loop appends to code
RenderAction(obj, evt, a, act) ==
    CASE act.type.kind = "act_begin" -> "{\n"
      [] act.type.kind = "act_end" -> "}\n"
      [] act.type.kind = "act_else" -> "else\n"
      [] act.type.kind = "act_exit" -> "exit\n"
      [] act.type.kind = "act_repeat" -> "repeat (" \o act.args[1].val \o ")\n"
      [] act.type.kind = "act_variable" ->
            act.args[1].val \o (IF act.relative THEN " += " ELSE " = ")
            \o act.args[2].val \o "\n"
      [] act.type.kind = "act_code" -> CodeUnitName(obj, evt, a) \o "()\n"
      [] act.type.kind = "act_normal" -> RenderNormal(act)
      [] OTHER -> ""

\* the iteration never completes (see ArgDiverges)
ActionDiverges(act) ==
    /\ act.type.kind = "act_normal"
    /\ act.type.exec # "exec_none"
    /\ \E n \in 1..act.nargs : ArgDiverges(act.args[n])

----------------------------------------------------------------------------
(* error_stream *)

Count(errs) == Len(errs)

\* errors.error(msg) under the current context
ErrorsError(errs, ctx, msg) == Append(errs, [context |-> ctx, msg |-> msg])

\* the diagnostics the parser reports for one unit with nerr syntax errors
ParserErrors(errs, ctx, nerr) ==
    errs \o [k \in 1..nerr |-> [context |-> ctx, msg |-> "syntax error"]]

\* the syntax errors one more unit may have; the build's total is capped
ParseOutcomes == 0..(MaxSyntaxErrors - Count(errors))

----------------------------------------------------------------------------
(* linker::add_function *)

AddFunction(text, name, args, var, nerr) ==
    LET parsed == ParserErrors(errors, name, nerr)
    IN  /\ context' = name
        /\ errors' = parsed
        /\ units' = Append(units, [name |-> name, text |-> text, args |-> args,
                                   var |-> var, nerr |-> nerr])
        /\ functions' = IF Count(parsed) > 0 THEN functions
                        ELSE Append(functions,
                                    [name |-> name, args |-> args, var |-> var])

----------------------------------------------------------------------------
(* linker::build *)

NoBackend ==
    [verified |-> FALSE, optimized |-> FALSE, objects_bc |-> FALSE,
     linked |-> FALSE, lto |-> FALSE, target |-> FALSE, link_result |-> FALSE]

BuildStart ==
    /\ pc = "start"
    /\ \E d \in BOOLEAN : debug' = d
    /\ progress' = Append(progress, 20)
    /\ pc' = "libraries"
    /\ i' = 1
    /\ UNCHANGED <<source, oi, ei, ai, code, context, errors, registered,
                   units, functions, backend, ret>>
    /\ UNCHANGED scopeVars

\* one iteration of the loop of build_libraries, or its exit
BuildLibraries ==
    /\ pc = "libraries"
    /\ IF i <= source.nactions
       THEN LET type == source.actions[i]
            IN  /\ i' = i + 1
                /\ IF type.exec # "exec_code"
                   THEN UNCHANGED <<context, errors, units, functions>>
                   ELSE \E nerr \in ParseOutcomes :
                           AddFunction(type.code, LibraryUnitName(type),
                                       type.nargs + (IF type.relative THEN 1 ELSE 0),
                                       FALSE, nerr)
                /\ UNCHANGED <<pc, progress>>
       ELSE /\ progress' = Append(progress, 30)
            /\ pc' = "register"
            /\ i' = 1
            /\ UNCHANGED <<context, errors, units, functions>>
    /\ UNCHANGED <<source, debug, oi, ei, ai, code, registered, backend, ret>>
    /\ UNCHANGED scopeVars

\* variant: the first pass registers nothing
RegisterScriptForgets ==
    /\ pc = "register"
    /\ IF i <= source.nscripts
       THEN i' = i + 1 /\ pc' = pc
       ELSE pc' = "scripts" /\ i' = 1
    /\ UNCHANGED <<source, debug, oi, ei, ai, code, context, errors, registered,
                   units, functions, progress, backend, ret>>
    /\ UNCHANGED scopeVars

\* first loop of build_scripts
RegisterScript ==
    /\ pc = "register"
    /\ IF i <= source.nscripts
       THEN /\ registered' = registered \cup {source.scripts[i].name}
            /\ i' = i + 1
            /\ pc' = pc
       ELSE /\ pc' = "scripts"
            /\ i' = 1
            /\ UNCHANGED registered
    /\ UNCHANGED <<source, debug, oi, ei, ai, code, context, errors, units,
                   functions, progress, backend, ret>>
    /\ UNCHANGED scopeVars

\* second loop of build_scripts
CompileScript ==
    /\ pc = "scripts"
    /\ IF i <= source.nscripts
       THEN /\ \E nerr \in ParseOutcomes :
                  AddFunction(source.scripts[i].code, source.scripts[i].name,
                              0, TRUE, nerr)
            /\ i' = i + 1
            /\ UNCHANGED <<pc, progress, oi, ei, ai>>
       ELSE /\ progress' = Append(progress, 40)
            /\ pc' = "objects"
            /\ oi' = 1 /\ ei' = 1 /\ ai' = 1
            /\ UNCHANGED <<i, context, errors, units, functions>>
    /\ UNCHANGED <<source, debug, code, registered, backend, ret>>
    /\ UNCHANGED scopeVars

InObject == pc = "objects" /\ oi <= source.nobjects
InEvent == InObject /\ ei <= source.objects[oi].nevents
InAction == InEvent /\ ai <= source.objects[oi].events[ei].nactions

\* one iteration of the action loop of build_objects
SynthAction ==
    /\ InAction
    /\ LET obj == source.objects[oi]
           evt == obj.events[ei]
           act == evt.actions[ai]
       IN  IF ActionDiverges(act)
           THEN /\ pc' = "aborted"
                /\ UNCHANGED <<ai, code, context, errors, units, functions>>
           ELSE /\ code' = code \o RenderAction(obj, evt, ai - 1, act)
                /\ ai' = ai + 1
                /\ pc' = pc
                /\ IF act.type.kind = "act_code"
                   THEN \E nerr \in ParseOutcomes :
                           AddFunction(act.args[1].val,
                                       CodeUnitName(obj, evt, ai - 1), 0, FALSE, nerr)
                   ELSE UNCHANGED <<context, errors, units, functions>>
    /\ UNCHANGED <<source, debug, i, oi, ei, registered, progress, backend, ret>>
    /\ UNCHANGED scopeVars

\* end of the action loop: the event's body becomes a unit
CompileEvent ==
    /\ InEvent /\ ~InAction
    /\ LET obj == source.objects[oi]
           evt == obj.events[ei]
       IN  \E nerr \in ParseOutcomes :
              AddFunction(code, EventUnitName(obj, evt), 0, FALSE, nerr)
    /\ code' = ""
    /\ ei' = ei + 1
    /\ ai' = 1
    /\ UNCHANGED <<source, debug, pc, i, oi, registered, progress, backend, ret>>
    /\ UNCHANGED scopeVars

\* end of the event loop, and end of the object loop
NextObject ==
    /\ pc = "objects" /\ ~InEvent
    /\ IF InObject
       THEN oi' = oi + 1 /\ ei' = 1 /\ ai' = 1 /\ pc' = pc
       ELSE pc' = "gate" /\ UNCHANGED <<oi, ei, ai>>
    /\ UNCHANGED <<source, debug, i, code, context, errors, registered, units,
                   functions, progress, backend, ret>>
    /\ UNCHANGED scopeVars

\* variant: the error count is not tested before the backend
ErrorGateSkipped ==
    /\ pc = "gate"
    /\ pc' = "verify"
    /\ UNCHANGED <<source, debug, i, oi, ei, ai, code, context, errors,
                   registered, units, functions, progress, backend, ret>>
    /\ UNCHANGED scopeVars

\* if (errors.count() > 0) return false;
ErrorGate ==
    /\ pc = "gate"
    /\ IF Count(errors) > 0
       THEN pc' = "done" /\ ret' = FALSE
       ELSE pc' = "verify" /\ UNCHANGED ret
    /\ UNCHANGED <<source, debug, i, oi, ei, ai, code, context, errors,
                   registered, units, functions, progress, backend>>
    /\ UNCHANGED scopeVars

\* verifyModule(game, &error)
VerifyModule ==
    /\ pc = "verify"
    /\ \E broken \in BOOLEAN :
          IF broken
          THEN /\ errors' = ErrorsError(errors, context, "verifier")
               /\ pc' = "done" /\ ret' = FALSE
          ELSE /\ pc' = "optimize"
               /\ UNCHANGED <<errors, ret>>
    /\ backend' = [backend EXCEPT !.verified = TRUE]
    /\ UNCHANGED <<source, debug, i, oi, ei, ai, code, context, registered,
                   units, functions, progress>>
    /\ UNCHANGED scopeVars

\* if (!debug) pm.run(game);
Optimize ==
    /\ pc = "optimize"
    /\ backend' = [backend EXCEPT !.optimized = ~debug]
    /\ pc' = "write"
    /\ UNCHANGED <<source, debug, i, oi, ei, ai, code, context, errors,
                   registered, units, functions, progress, ret>>
    /\ UNCHANGED scopeVars

\* tool_output_file out(output + "/objects.bc"), then progress(60)
WriteObjects ==
    /\ pc = "write"
    /\ \E failed \in BOOLEAN :
          IF failed
          THEN /\ errors' = ErrorsError(errors, context, "file system")
               /\ pc' = "done" /\ ret' = FALSE
               /\ UNCHANGED <<backend, progress>>
          ELSE /\ backend' = [backend EXCEPT !.objects_bc = TRUE]
               /\ progress' = Append(progress, 60)
               /\ pc' = "link"
               /\ UNCHANGED <<errors, ret>>
    /\ UNCHANGED <<source, debug, i, oi, ei, ai, code, context, registered,
                   units, functions>>
    /\ UNCHANGED scopeVars

\* linker::link(target, debug)
Link ==
    /\ pc = "link"
    /\ \E mergeFails \in BOOLEAN, openFails \in BOOLEAN :
          LET merged == IF mergeFails
                        THEN ErrorsError(errors, context, "failed to link with runtime")
                        ELSE errors
          IN  /\ errors' = IF openFails
                           THEN ErrorsError(merged, context, "file system")
                           ELSE merged
              /\ backend' = [backend EXCEPT !.linked = TRUE,
                                            !.lto = ~debug,
                                            !.target = ~openFails,
                                            !.link_result = ~openFails]
    /\ pc' = "return"
    /\ UNCHANGED <<source, debug, i, oi, ei, ai, code, context, registered,
                   units, functions, progress, ret>>
    /\ UNCHANGED scopeVars

\* variant: build returns what link returned
BuildReturnLinkResult ==
    /\ pc = "return"
    /\ ret' = backend.link_result
    /\ pc' = "done"
    /\ UNCHANGED <<source, debug, i, oi, ei, ai, code, context, errors,
                   registered, units, functions, progress, backend>>
    /\ UNCHANGED scopeVars

\* return errors.count() == 0;
BuildReturn ==
    /\ pc = "return"
    /\ ret' = (Count(errors) = 0)
    /\ pc' = "done"
    /\ UNCHANGED <<source, debug, i, oi, ei, ai, code, context, errors,
                   registered, units, functions, progress, backend>>
    /\ UNCHANGED scopeVars

----------------------------------------------------------------------------
(* Runtime: scope.cc *)

Names == {"a", "b"}
Instances == {"inst1", "inst2"}
Values == 1..MaxValue
DefaultValue == 0
UShortMax == 65535

\* the selectors passed as double id, in halves: -11 stands for -5.5
IdHalves == {-12, -11, -10, -8, -6, -4, -3, -2, 0}

\* (int)id : truncation towards zero
IntCast(h) == IF h >= 0 THEN h \div 2 ELSE -((-h) \div 2)

\* variant: the global selector resolves to the caller's own scope
ResolveGlobalAsSelf(self, other, h) ==
    CASE IntCast(h) \in {-1, -5} -> [scope |-> self, error |-> ""]
      [] IntCast(h) = -2 -> [scope |-> other, error |-> ""]
      [] IntCast(h) \in {-3, -4} -> [scope |-> "", error |-> "variable does not exist"]
      [] IntCast(h) = -6 -> [scope |-> "", error |-> "local is not supported"]
      [] OTHER -> [scope |-> "", error |-> ""]

\* the switch of lookup: the scope the selector resolves to
Resolve(self, other, h) ==
    CASE IntCast(h) = -1 -> [scope |-> self, error |-> ""]
      [] IntCast(h) = -2 -> [scope |-> other, error |-> ""]
      [] IntCast(h) = -5 -> [scope |-> "global", error |-> ""]
      [] IntCast(h) \in {-3, -4} -> [scope |-> "", error |-> "variable does not exist"]
      [] IntCast(h) = -6 -> [scope |-> "", error |-> "local is not supported"]
      [] OTHER -> [scope |-> "", error |-> ""]

MapOf(scope) == IF scope = "global" THEN global ELSE scopes[scope]

\* extern "C" var *lookup(scope *self, scope *other, double id, string name)
Lookup(self, other, h, name) ==
    LET r == Resolve(self, other, h)
    IN  IF r.scope = ""
        THEN /\ result' = [op |-> "lookup", sel |-> IntCast(h), name |-> name,
                           ref |-> 0, error |-> r.error]
             /\ UNCHANGED <<global, scopes, heap>>
        ELSE IF MapOf(r.scope)[name] # 0
        THEN /\ result' = [op |-> "lookup", sel |-> IntCast(h), name |-> name,
                           ref |-> MapOf(r.scope)[name], error |-> ""]
             /\ UNCHANGED <<global, scopes, heap>>
        ELSE \* operator[] inserts a default-constructed var
             /\ Len(heap) < MaxSlots
             /\ heap' = Append(heap, DefaultValue)
             /\ IF r.scope = "global"
                THEN /\ global' = [global EXCEPT ![name] = Len(heap) + 1]
                     /\ UNCHANGED scopes
                ELSE /\ scopes' = [scopes EXCEPT ![r.scope][name] = Len(heap) + 1]
                     /\ UNCHANGED global
             /\ result' = [op |-> "lookup", sel |-> IntCast(h), name |-> name,
                           ref |-> Len(heap) + 1, error |-> ""]

LookupCall ==
    /\ pc = "runtime"
    /\ \E self \in Instances, other \in Instances, h \in IdHalves, name \in Names :
          Lookup(self, other, h, name)
    /\ UNCHANGED arr
    /\ UNCHANGED buildVars

\* the caller assigns through the var* lookup returned
StoreThroughRef ==
    /\ pc = "runtime"
    /\ result.op = "lookup" /\ result.ref # 0
    /\ \E v \in Values : heap' = [heap EXCEPT ![result.ref] = v]
    /\ UNCHANGED <<global, scopes, arr, result>>
    /\ UNCHANGED buildVars

Indices == 0..(MaxExtent + 1) \cup {UShortMax}

\* variant: the bounds are tested with > instead of >=
AccessInclusive(x, y) ==
    /\ result' =
          IF x > arr.x \/ y > arr.y
          THEN [op |-> "access", x |-> x, y |-> y, ref |-> 0,
                error |-> "index out of bounds"]
          ELSE [op |-> "access", x |-> x, y |-> y, ref |-> x + y * arr.x + 1,
                error |-> ""]
    /\ UNCHANGED arr

\* extern "C" variant *access(var *a, unsigned short x, unsigned short y)
Access(x, y) ==
    /\ result' =
          IF x >= arr.x
          THEN [op |-> "access", x |-> x, y |-> y, ref |-> 0,
                error |-> "index out of bounds"]
          ELSE IF y >= arr.y
          THEN [op |-> "access", x |-> x, y |-> y, ref |-> 0,
                error |-> "index out of bounds"]
          ELSE [op |-> "access", x |-> x, y |-> y, ref |-> x + y * arr.x + 1,
                error |-> ""]
    /\ UNCHANGED arr

AccessCall ==
    /\ pc = "array"
    /\ \E x \in Indices, y \in Indices : Access(x, y)
    /\ UNCHANGED <<global, scopes, heap>>
    /\ UNCHANGED buildVars

\* the caller assigns through the variant* access returned
StoreThroughCell ==
    /\ pc = "array"
    /\ result.op = "access" /\ result.ref # 0
    /\ arr' = [arr EXCEPT !.contents[result.ref] = MaxValue]
    /\ UNCHANGED <<global, scopes, heap, result>>
    /\ UNCHANGED buildVars

NoResult == [op |-> "none", ref |-> 0, error |-> ""]

Arrays ==
    {[x |-> ex, y |-> ey, contents |-> [k \in 1..(ex * ey) |-> DefaultValue]] :
        ex \in 1..MaxExtent, ey \in 1..MaxExtent}

----------------------------------------------------------------------------
(* The build as a state machine *)

ScopeIdle ==
    /\ global = [n \in Names |-> 0]
    /\ scopes = [s \in Instances |-> [n \in Names |-> 0]]
    /\ heap = << >>
    /\ arr = [x |-> 1, y |-> 1, contents |-> <<DefaultValue>>]
    /\ result = NoResult

BuildIdle(at) ==
    /\ source = Game(<< >>, << >>, << >>)
    /\ debug = FALSE
    /\ pc = at
    /\ i = 1 /\ oi = 1 /\ ei = 1 /\ ai = 1
    /\ code = ""
    /\ context = ""
    /\ errors = << >>
    /\ registered = {}
    /\ units = << >>
    /\ functions = << >>
    /\ progress = << >>
    /\ backend = NoBackend
    /\ ret = FALSE

Init ==
    /\ source \in Projects
    /\ debug = FALSE
    /\ pc = "start"
    /\ i = 1 /\ oi = 1 /\ ei = 1 /\ ai = 1
    /\ code = ""
    /\ context = ""
    /\ errors = << >>
    /\ registered = {}
    /\ units = << >>
    /\ functions = << >>
    /\ progress = << >>
    /\ backend = NoBackend
    /\ ret = FALSE
    /\ ScopeIdle

Next ==
    \/ BuildStart
    \/ BuildLibraries
    \/ RegisterScript
    \/ CompileScript
    \/ SynthAction
    \/ CompileEvent
    \/ NextObject
    \/ ErrorGate
    \/ VerifyModule
    \/ Optimize
    \/ WriteObjects
    \/ Link
    \/ BuildReturn

Spec == Init /\ [][Next]_vars

----------------------------------------------------------------------------
(* The scope service as a state machine *)

InitScope ==
    /\ BuildIdle("runtime")
    /\ ScopeIdle

NextScope == LookupCall \/ StoreThroughRef

SpecScope == InitScope /\ [][NextScope]_vars

----------------------------------------------------------------------------
(* Array access as a state machine *)

InitArray ==
    /\ BuildIdle("array")
    /\ global = [n \in Names |-> 0]
    /\ scopes = [s \in Instances |-> [n \in Names |-> 0]]
    /\ heap = << >>
    /\ arr \in Arrays
    /\ result = NoResult

NextArray == AccessCall \/ StoreThroughCell

SpecArray == InitArray /\ [][NextArray]_vars

----------------------------------------------------------------------------
(* Properties of the build *)

BadUnits == {k \in DOMAIN units : units[k].nerr > 0}

Signature(u) == [name |-> u.name, args |-> u.args, var |-> u.var]

RECURSIVE CleanUnits(_)
\* the units that parsed cleanly, in compilation order, as code generation sees them
CleanUnits(k) ==
    IF k > Len(units) THEN << >>
    ELSE (IF units[k].nerr = 0 THEN <<Signature(units[k])>> ELSE << >>)
         \o CleanUnits(k + 1)

\* C1: in a finished build where exactly one unit had syntax errors, every
\* other unit, before or after it, was handed to code generation, the bad unit
\* was not, and build() returned failure with at least one error recorded.
C1_ErrorIsolation ==
    (pc = "done" /\ Cardinality(BadUnits) = 1) =>
        /\ functions = CleanUnits(1)
        /\ ret = FALSE
        /\ Count(errors) >= 1

\* C2: a build that ends with a nonzero error count has not written the final
\* module to the target path.
C2_NoArtifactOnFailure ==
    (pc = "done" /\ Count(errors) > 0) => ~backend.target

\* C3: build() returns true exactly when the error count is zero at its return.
C3_SuccessIffNoErrors ==
    pc = "done" => (ret <=> Count(errors) = 0)

C3_Witness ==
    /\ pc = "done"
    /\ backend.linked
    /\ ~ret
    /\ Count(errors) = 1

SyntaxErrors == {k \in DOMAIN errors : errors[k].msg = "syntax error"}

\* C4: once a unit has reported an error, the build never reaches a backend
\* step (verification, optimization, objects.bc, the 60% checkpoint, link) and
\* it returns failure.
C4_ErrorGate ==
    SyntaxErrors # {} =>
        /\ backend = NoBackend
        /\ \A k \in DOMAIN progress : progress[k] # 60
        /\ pc \notin {"verify", "optimize", "write", "link", "return"}
        /\ (pc = "done" => ~ret)

C4_Witness ==
    /\ pc = "done"
    /\ SyntaxErrors # {}
    /\ ~ret
    /\ progress = <<20, 30, 40>>

ScriptUnits == {k \in DOMAIN units : units[k].var}

AllScriptNames == {source.scripts[k].name : k \in 1..source.nscripts}

\* C5: when the first script body reaches the unit compiler every script name
\* of the project is registered, and only script names are ever registered
\* (none while the libraries are compiled).
C5_TwoPass ==
    /\ ScriptUnits # {} => AllScriptNames \subseteq registered
    /\ registered \subseteq AllScriptNames
    /\ pc \in {"start", "libraries"} => registered = {}

C5_Witness ==
    /\ source.nscripts = MaxScripts
    /\ Cardinality(ScriptUnits) = 1
    /\ registered = AllScriptNames
    /\ pc = "scripts"

DistinctProject ==
    /\ \A a, b \in 1..source.nobjects :
          a # b => source.objects[a].name # source.objects[b].name
    /\ \A o \in 1..source.nobjects :
          \A a, b \in 1..source.objects[o].nevents :
             a # b => <<source.objects[o].events[a].main_id,
                        source.objects[o].events[a].sub_id>>
                      # <<source.objects[o].events[b].main_id,
                          source.objects[o].events[b].sub_id>>
    /\ \A a, b \in 1..source.nscripts :
          a # b => source.scripts[a].name # source.scripts[b].name
    /\ \A a, b \in 1..source.nactions :
          (a # b /\ source.actions[a].exec = "exec_code"
                 /\ source.actions[b].exec = "exec_code")
          => <<source.actions[a].parent, source.actions[a].id>>
             # <<source.actions[b].parent, source.actions[b].id>>

\* C6: in a project whose objects, events, scripts and code-backed library
\* descriptors are pairwise distinct, no two compiled units share a name.
C6_UniqueUnitNames ==
    DistinctProject =>
        \A a, b \in DOMAIN units : a # b => units[a].name # units[b].name

CurrentAction == source.objects[oi].events[ei].actions[ai]

\* the action loop completes one iteration
ActionStep == InAction /\ ai' = ai + 1

\* C7 as stated: an action whose type has execution kind none, of whatever
\* action kind, appends nothing to the event body and compiles no unit.
C7_ExecNoneAnyKind ==
    [][(ActionStep /\ CurrentAction.type.exec = "exec_none")
          => (code' = code /\ units' = units)]_vars

\* C7 as amended: a normal action whose type has execution kind none appends
\* nothing to the event body and compiles no unit.
C7_NormalExecNone ==
    [][(ActionStep /\ CurrentAction.type.kind = "act_normal"
                   /\ CurrentAction.type.exec = "exec_none")
          => (code' = code /\ units' = units /\ functions' = functions)]_vars

C7_Witness ==
    /\ InEvent
    /\ ai = 3
    /\ source.objects[oi].events[ei].actions[2].type.kind = "act_normal"
    /\ source.objects[oi].events[ei].actions[2].type.exec = "exec_none"
    /\ source.objects[oi].events[ei].actions[2].nargs = MaxArgs
    /\ code = "exit\n"

\* the items of the argument list: the arguments, then the relative value
ArgItems(act) ==
    [k \in 1..act.nargs |-> RenderArg(act.args[k])]
    \o (IF act.type.relative THEN <<BoolText(act.relative)>> ELSE << >>)

RECURSIVE JoinComma(_, _)
JoinComma(items, k) ==
    IF k > Len(items) THEN ""
    ELSE (IF k > 1 THEN ", " ELSE "") \o items[k] \o JoinComma(items, k + 1)

\* C10: a normal action that is not a no-op renders its call with the
\* arguments (and the relative value, when the type takes one) joined by
\* single ", " separators, none leading and none trailing.
C10_ArgumentList ==
    [][(ActionStep /\ CurrentAction.type.kind = "act_normal"
                   /\ CurrentAction.type.exec # "exec_none")
          => code' = code \o RenderPrefix(CurrentAction)
                          \o Callee(CurrentAction.type)
                          \o "(" \o JoinComma(ArgItems(CurrentAction), 1) \o ")"
                          \o RenderSuffix(CurrentAction)]_vars

----------------------------------------------------------------------------
(* Properties of the runtime *)

\* C8: access returns a cell exactly when x < a.x and y < a.y, signals
\* "index out of bounds" and returns no cell otherwise, and leaves the array
\* as it was.
C8_AccessBounds ==
    [][(result' # result /\ result'.op = "access") =>
          /\ arr' = arr
          /\ (result'.ref # 0) <=> (result'.x < arr.x /\ result'.y < arr.y)
          /\ result'.ref = 0 => result'.error = "index out of bounds"
          /\ result'.ref # 0 =>
                /\ result'.error = ""
                /\ result'.ref = result'.x + result'.y * arr.x + 1
                /\ result'.ref \in DOMAIN arr.contents]_vars

C8_Witness ==
    /\ result.op = "access"
    /\ result.x = arr.x
    /\ result.y < arr.y
    /\ result.ref = 0
    /\ result.error = "index out of bounds"
    /\ \E k \in DOMAIN arr.contents : arr.contents[k] # DefaultValue

\* C9: a slot of the global scope, once created, stays the slot of its name;
\* every lookup with selector -5 returns that slot whatever self and other
\* are, keeps the value held there, and creates the slot with the default
\* value only when the name was absent.
C9_GlobalShared ==
    [][/\ \A n \in Names : global[n] # 0 => global'[n] = global[n]
       /\ (result'.op = "lookup" /\ result'.sel = -5) =>
             /\ result'.ref # 0
             /\ result'.ref = global'[result'.name]
             /\ (result' # result /\ global[result'.name] # 0) => heap' = heap
             /\ (result' # result /\ global[result'.name] = 0) =>
                   /\ result'.ref \notin DOMAIN heap
                   /\ heap'[result'.ref] = DefaultValue
                   /\ \A a \in DOMAIN heap : heap'[a] = heap[a]]_vars

C9_Witness ==
    /\ result.op = "lookup"
    /\ result.sel = -5
    /\ result.ref = global[result.name]
    /\ result.ref # 0
    /\ heap[result.ref] \in Values
    /\ \E s \in Instances : scopes[s][result.name] # 0

====
